---------------------------- MODULE Spec2Model ----------------------------
(***************************************************************************)
(* Collectors of the GitHub exporter: the v5 billing collector, the legacy *)
(* (v4 metrics on the usage API) billing collector and the runner          *)
(* collector, with the helpers they rest on (paged runner fetches, the     *)
(* usage normaliser, glob filtering of repositories).                      *)
(*                                                                         *)
(* Strings are TLA+ strings; characters are strings of length 1.  Amounts  *)
(* (float64 in the source) are fixed-point numbers counted in units of     *)
(* 1/Scale, which is exact for the small dyadic values explored here.      *)
(***************************************************************************)
EXTENDS Integers, Sequences, FiniteSets, TLC

----------------------------------------------------------------------------
(* Strings (package strings of the Go standard library)                    *)

CharAt(s, i) == SubSeq(s, i, i)

RECURSIVE SeqToSet(_)
SeqToSet(s) == IF Len(s) = 0 THEN {} ELSE {Head(s)} \cup SeqToSet(Tail(s))

Range(f) == {f[i] : i \in DOMAIN f}

UpperCase == <<"A","B","C","D","E","F","G","H","I","J","K","L","M",
               "N","O","P","Q","R","S","T","U","V","W","X","Y","Z">>
LowerCase == <<"a","b","c","d","e","f","g","h","i","j","k","l","m",
               "n","o","p","q","r","s","t","u","v","w","x","y","z">>

\* unicode.ToLower on the ASCII letters.
LowerMap ==
    [c \in Range(UpperCase) |->
        LowerCase[CHOOSE i \in 1..26 : UpperCase[i] = c]]

LowerChar(c) == IF c \in DOMAIN LowerMap THEN LowerMap[c] ELSE c

RECURSIVE ToLower(_)
ToLower(s) ==
    IF Len(s) = 0 THEN ""
    ELSE LowerChar(CharAt(s, 1)) \o ToLower(SubSeq(s, 2, Len(s)))

HasPrefix(s, p) == Len(s) >= Len(p) /\ SubSeq(s, 1, Len(p)) = p

HasSuffix(s, p) ==
    Len(s) >= Len(p) /\ SubSeq(s, Len(s) - Len(p) + 1, Len(s)) = p

\* strings.Index: the 0-based offset of the first occurrence, -1 when none.
Index(s, sub) ==
    LET hits == {i \in 0..(Len(s) - Len(sub)) :
                    SubSeq(s, i + 1, i + Len(sub)) = sub}
    IN  IF hits = {} THEN -1
        ELSE CHOOSE i \in hits : \A j \in hits : i <= j

Contains(s, sub) == Index(s, sub) >= 0

\* strings.Split with a separator of one character.
RECURSIVE Split(_, _)
Split(s, sep) ==
    LET i == Index(s, sep)
    IN  IF i < 0 THEN <<s>>
        ELSE <<SubSeq(s, 1, i)>> \o Split(SubSeq(s, i + 2, Len(s)), sep)

----------------------------------------------------------------------------
(* glob.Glob of github.com/ryanuber/go-glob, the filter repoRunners uses.  *)
(* Its only wildcard is "*"; every other character stands for itself.      *)

GLOB == "*"

\* The loop over parts[0 .. end-1]: <<ok, rest of subj>>.
RECURSIVE GlobParts(_, _, _, _)
GlobParts(parts, i, subj, leadingGlob) ==
    IF i >= Len(parts) THEN <<TRUE, subj>>
    ELSE LET part == parts[i]
             idx  == Index(subj, part)
         IN  IF i = 1 /\ ~leadingGlob /\ idx # 0 THEN <<FALSE, subj>>
             ELSE IF i > 1 /\ idx < 0 THEN <<FALSE, subj>>
             ELSE GlobParts(parts, i + 1,
                            SubSeq(subj, idx + Len(part) + 1, Len(subj)),
                            leadingGlob)

GlobNoAnchor(pattern, subj) ==
    IF pattern = "" THEN subj = pattern
    ELSE IF pattern = GLOB THEN TRUE
    ELSE LET parts == Split(pattern, GLOB)
         IN  IF Len(parts) = 1 THEN HasPrefix(subj, pattern)
             ELSE LET r == GlobParts(parts, 1, subj, HasPrefix(pattern, GLOB))
                  IN  r[1]

Glob(pattern, subj) ==
    IF pattern = "" THEN subj = pattern
    ELSE IF pattern = GLOB THEN TRUE
    ELSE LET parts == Split(pattern, GLOB)
         IN  IF Len(parts) = 1 THEN subj = pattern
             ELSE LET r == GlobParts(parts, 1, subj, HasPrefix(pattern, GLOB))
                  IN  /\ r[1]
                      /\ \/ HasSuffix(pattern, GLOB)
                         \/ HasSuffix(r[2], parts[Len(parts)])

----------------------------------------------------------------------------
(* Amounts and usage items                                                 *)

\* float64 amounts are counted in units of 1/Scale.
Scale == 2

\* int(x) of a float64: truncation toward zero.
IntOf(q) == IF q >= 0 THEN q \div Scale ELSE -((-q) \div Scale)

\* float64(n) of an int.
FloatOf(n) == n * Scale

\* 1024 * 1024 * 1024, the bytes of a gigabyte.
GiB == 1073741824

\* quantity / (1024 * 1024 * 1024); exact for the multiples of a gigabyte,
\* the only byte quantities the specifications draw.
BytesToGB(q) == q \div GiB

\* A UsageItem as decoded from the usage API (absent numbers decode to 0).
UsageItem(date, product, sku, qty, unit, ppu, gross, disc, net, org, repo) ==
    [Date |-> date, Product |-> product, SKU |-> sku, Quantity |-> qty,
     UnitType |-> unit, PricePerUnit |-> ppu, GrossAmount |-> gross,
     DiscountAmount |-> disc, NetAmount |-> net,
     OrganizationName |-> org, RepositoryName |-> repo]

----------------------------------------------------------------------------
(* Legacy usage normaliser (pkg/exporter/billing.go)                       *)

extractOSFromSKU(sku) ==
    LET skuLower == ToLower(sku)
    IN  IF Contains(skuLower, "linux") THEN "UBUNTU"
        ELSE IF Contains(skuLower, "windows") THEN "WINDOWS"
        ELSE IF Contains(skuLower, "macos") \/ Contains(skuLower, "mac")
             THEN "MACOS"
        ELSE ""

\* m[k] += v on a Go map: a missing key reads as 0 and is created.
MapAdd(m, k, v) ==
    IF k \in DOMAIN m THEN [m EXCEPT ![k] = @ + v] ELSE m @@ (k :> v)

EmptyMap == [k \in {} |-> 0]

NewActionBilling(billingType, name) ==
    [Type |-> billingType, Name |-> name, TotalMinutesUsed |-> 0,
     TotalPaidMinutesUsed |-> 0, IncludedMinutes |-> 0,
     MinutesUsedBreakdown |-> EmptyMap]

NewPackageBilling(billingType, name) ==
    [Type |-> billingType, Name |-> name, TotalGigabytesBandwidthUsed |-> 0,
     TotalPaidGigabytesBandwidthUsed |-> 0, IncludedGigabytesBandwidth |-> 0]

NewStorageBilling(billingType, name) ==
    [Type |-> billingType, Name |-> name, DaysLeftInBillingCycle |-> 0,
     EstimatedPaidStorageForMonth |-> 0, EstimatedStorageForMonth |-> 0]

\* The "actions" case of the switch.
ParseActionItem(bill, item) ==
    IF ToLower(item.UnitType) = "minutes"
    THEN LET os == extractOSFromSKU(item.SKU)
             b1 == [bill EXCEPT
                      !.TotalMinutesUsed = @ + item.Quantity,
                      !.TotalPaidMinutesUsed = @ + item.NetAmount,
                      !.IncludedMinutes = @ + item.DiscountAmount]
         IN  IF os # ""
             THEN [b1 EXCEPT !.MinutesUsedBreakdown =
                                MapAdd(@, os, IntOf(item.Quantity))]
             ELSE b1
    ELSE bill

\* The "packages" case of the switch.
ParsePackageItem(bill, item) ==
    LET unitType == ToLower(item.UnitType)
    IN  IF unitType = "bytes" \/ unitType = "gigabytes"
        THEN LET quantity == IF unitType = "bytes"
                             THEN BytesToGB(item.Quantity)
                             ELSE item.Quantity
             IN  [bill EXCEPT
                    !.TotalGigabytesBandwidthUsed = @ + quantity,
                    !.TotalPaidGigabytesBandwidthUsed = @ + item.NetAmount,
                    !.IncludedGigabytesBandwidth = @ + item.DiscountAmount]
        ELSE bill

\* The "git_lfs" case of the switch.
ParseStorageItem(bill, item) ==
    LET unitType == ToLower(item.UnitType)
    IN  IF unitType = "bytes" \/ unitType = "gigabytes"
                              \/ unitType = "gigabytehours"
        THEN LET quantity == IF unitType = "bytes"
                             THEN BytesToGB(item.Quantity)
                             ELSE item.Quantity
             IN  [bill EXCEPT
                    !.EstimatedStorageForMonth = @ + quantity,
                    !.EstimatedPaidStorageForMonth = @ + item.NetAmount]
        ELSE bill

\* One iteration of the loop over response.UsageItems.
ParseItem(bills, item) ==
    LET product == ToLower(item.Product)
    IN  IF product = "actions"
        THEN [bills EXCEPT ![1] = ParseActionItem(@, item)]
        ELSE IF product = "packages"
        THEN [bills EXCEPT ![2] = ParsePackageItem(@, item)]
        ELSE IF product = "git_lfs"
        THEN [bills EXCEPT ![3] = ParseStorageItem(@, item)]
        ELSE bills

RECURSIVE ParseItems(_, _)
ParseItems(bills, items) ==
    IF Len(items) = 0 THEN bills
    ELSE ParseItems(ParseItem(bills, Head(items)), Tail(items))

\* parseUsageResponse: <<actionBill, packageBill, storageBill>>.  A nil
\* response is the empty list of items.
parseUsageResponse(usageItems, billingType, name) ==
    ParseItems(<<NewActionBilling(billingType, name),
                 NewPackageBilling(billingType, name),
                 NewStorageBilling(billingType, name)>>, usageItems)

----------------------------------------------------------------------------
(* Upstream calls of the billing collectors                                *)

HexDigits == {"0","1","2","3","4","5","6","7","8","9",
              "a","b","c","d","e","f","A","B","C","D","E","F"}

\* client.NewRequest fails when the endpoint does not parse as a URL: here,
\* when a "%" is not followed by two hexadecimal digits.
NewRequestFails(endpoint) ==
    \E i \in 1..Len(endpoint) :
        /\ CharAt(endpoint, i) = "%"
        /\ ~(/\ i + 2 <= Len(endpoint)
             /\ CharAt(endpoint, i + 1) \in HexDigits
             /\ CharAt(endpoint, i + 2) \in HexDigits)

\* fmt.Sprintf of the usage endpoint of an entity.
Endpoint(entityType, name) ==
    IF entityType = "enterprise"
    THEN "/enterprises/" \o name \o "/settings/billing/usage"
    ELSE "/organizations/" \o name \o "/settings/billing/usage"

\* What the upstream answers to one call: kind "ok" with the decoded usage
\* items, kind "err" (an API or decoding error), or kind "timeout" (the
\* deadline of the call's context passes during the call).
OkResp(items) == [kind |-> "ok", items |-> items]
ErrResp == [kind |-> "err", items |-> <<>>]
TimeoutResp == [kind |-> "timeout", items |-> <<>>]

\* client.Do under a context: once the deadline has passed, every call under
\* that context fails.  <<error, context expired afterwards>>.
Do(expired, resp) ==
    IF expired THEN <<TRUE, TRUE>>
    ELSE IF resp.kind = "timeout" THEN <<TRUE, TRUE>>
    ELSE IF resp.kind = "err" THEN <<TRUE, FALSE>>
    ELSE <<FALSE, FALSE>>

\* The entities of a target in fetch order: enterprises, then organizations.
Entities(cfg) ==
    [i \in 1..Len(cfg.Enterprises) |->
        [type |-> "enterprise", name |-> cfg.Enterprises[i]]]
    \o [i \in 1..Len(cfg.Orgs) |-> [type |-> "org", name |-> cfg.Orgs[i]]]

----------------------------------------------------------------------------
(* v5 billing collector (BillingCollector of the enhanced billing metrics) *)

V5Descs == <<"github_billing_usage", "github_billing_usage_gross_amount",
             "github_billing_usage_discount_amount",
             "github_billing_usage_net_amount",
             "github_billing_usage_price_per_unit">>

\* The result of a fetch: the items gathered, the failures counted under
\* each label, the calls handed to client.Do, and whether the context has
\* expired.
FetchState(items, fails, reqs, expired) ==
    [items |-> items, fails |-> fails, reqs |-> reqs, expired |-> expired]

\* The metadata, were the name taken from the item's organization.
WithScopeOfItem(items, entityType, name) ==
    [i \in 1..Len(items) |->
        [f \in (DOMAIN items[i]) \cup {"Type", "Name"} |->
            IF f = "Type" THEN entityType
            ELSE IF f = "Name" THEN items[i].OrganizationName
            ELSE items[i][f]]]

\* Adds metadata to each usage item.
WithScope(items, entityType, name) ==
    [i \in 1..Len(items) |->
        [f \in (DOMAIN items[i]) \cup {"Type", "Name"} |->
            IF f = "Type" THEN entityType
            ELSE IF f = "Name" THEN name
            ELSE items[i][f]]]

\* fetchBillingUsageForEntity, appended to the fetch state st.
fetchBillingUsageForEntity(st, entityType, name, resp) ==
    LET endpoint == Endpoint(entityType, name)
    IN  IF NewRequestFails(endpoint)
        THEN [st EXCEPT !.fails = Append(@, "billing")]
        ELSE LET d == Do(st.expired, resp)
                 s1 == [st EXCEPT !.reqs = Append(@, endpoint),
                                  !.expired = d[2]]
             IN  IF d[1]
                 THEN [s1 EXCEPT !.fails = Append(@, "billing")]
                 ELSE [s1 EXCEPT !.items =
                          @ \o WithScope(resp.items, entityType, name)]

RECURSIVE FetchAll(_, _, _, _)
FetchAll(st, ents, resps, i) ==
    IF i > Len(ents) THEN st
    ELSE FetchAll(fetchBillingUsageForEntity(st, ents[i].type, ents[i].name,
                                             resps[i]),
                  ents, resps, i + 1)

\* getBillingUsage: one context for the whole fetch.
getBillingUsage(cfg, resps) ==
    FetchAll(FetchState(<<>>, <<>>, <<>>, FALSE), Entities(cfg), resps, 1)

\* fmt.Sprintf("%s-%s-%s-%s-%s", ...): the deduplication key.
DedupKey(item) ==
    item.Type \o "-" \o item.Name \o "-" \o item.Product \o "-"
        \o item.SKU \o "-" \o item.Date

V5Labels(item) ==
    <<item.Type, item.Name, item.Product, item.SKU, item.UnitType, item.Date,
      item.OrganizationName, item.RepositoryName>>

Sample(desc, labels, value) ==
    [desc |-> desc, labels |-> labels, value |-> value]

\* The five samples of one usage item.
V5Samples(item) ==
    LET labels == V5Labels(item)
    IN  <<Sample(V5Descs[1], labels, item.Quantity),
          Sample(V5Descs[2], labels, item.GrossAmount),
          Sample(V5Descs[3], labels, item.DiscountAmount),
          Sample(V5Descs[4], labels, item.NetAmount),
          Sample(V5Descs[5], labels, item.PricePerUnit)>>

\* The loop of Collect, were a later item of a key to replace the earlier.
RECURSIVE V5EmitLastWins(_, _, _)
V5EmitLastWins(items, collected, out) ==
    IF Len(items) = 0 THEN out
    ELSE LET item == Head(items)
             key  == DedupKey(item)
             rest == Tail(items)
         IN  IF \E k \in 1..Len(rest) : DedupKey(rest[k]) = key
             THEN V5EmitLastWins(rest, collected, out)
             ELSE V5EmitLastWins(rest, collected \cup {key},
                                 out \o V5Samples(item))

\* The loop of Collect over usageItems, with the set of collected keys.
RECURSIVE V5Emit(_, _, _)
V5Emit(items, collected, out) ==
    IF Len(items) = 0 THEN out
    ELSE LET item == Head(items)
             key  == DedupKey(item)
         IN  IF key \in collected
             THEN V5Emit(Tail(items), collected, out)
             ELSE V5Emit(Tail(items), collected \cup {key},
                         out \o V5Samples(item))

\* One call of Collect: what it sends, counts, observes and requests.
CallResult(samples, fails, obs, reqs, panicked) ==
    [samples |-> samples, fails |-> fails, obs |-> obs, reqs |-> reqs,
     panicked |-> panicked]

V5CollectResult(cfg, resps) ==
    LET st == getBillingUsage(cfg, resps)
    IN  CallResult(V5Emit(st.items, {}, <<>>), st.fails, <<"billing">>,
                   st.reqs, FALSE)

----------------------------------------------------------------------------
(* Legacy billing collector (pkg/exporter/billing.go)                      *)

LegacyDescs == <<"github_action_billing_minutes_used",
                 "github_action_billing_minutes_used_breakdown",
                 "github_action_billing_paid_minutes",
                 "github_action_billing_included_minutes",
                 "github_package_billing_gigabytes_bandwidth_used",
                 "github_package_billing_paid_gigabytes_bandwidth_used",
                 "github_package_billing_included_gigabytes_bandwidth",
                 "github_storage_billing_days_left_in_cycle",
                 "github_storage_billing_estimated_paid_storage_for_month",
                 "github_storage_billing_estimated_storage_for_month">>

\* One iteration of the loops of getActionBilling, getPackageBilling and
\* getStorageBilling (bucket 1, 2, 3): the bill of one entity is appended,
\* or the failure is counted under "action".
LegacyFetchEntity(st, bucket, entityType, name, resp) ==
    LET endpoint == Endpoint(entityType, name)
    IN  IF NewRequestFails(endpoint)
        THEN [st EXCEPT !.fails = Append(@, "action")]
        ELSE LET d == Do(st.expired, resp)
                 s1 == [st EXCEPT !.reqs = Append(@, endpoint),
                                  !.expired = d[2]]
             IN  IF d[1]
                 THEN [s1 EXCEPT !.fails = Append(@, "action")]
                 ELSE [s1 EXCEPT !.items = Append(@,
                          parseUsageResponse(resp.items, entityType,
                                             name)[bucket])]

RECURSIVE LegacyFetchAll(_, _, _, _, _)
LegacyFetchAll(st, bucket, ents, resps, i) ==
    IF i > Len(ents) THEN st
    ELSE LegacyFetchAll(LegacyFetchEntity(st, bucket, ents[i].type,
                                          ents[i].name, resps[i]),
                        bucket, ents, resps, i + 1)

\* getActionBilling, getPackageBilling, getStorageBilling: each under a
\* context of its own.
getLegacyBilling(bucket, cfg, resps) ==
    LegacyFetchAll(FetchState(<<>>, <<>>, <<>>, FALSE), bucket,
                   Entities(cfg), resps, 1)

\* alreadyCollected: whether the list holds the name.
alreadyCollected(collected, needle) ==
    \E i \in 1..Len(collected) : collected[i] = needle

\* The range over record.MinutesUsedBreakdown, in the order osOrder gives to
\* the keys (Go leaves the order of a map range open).
RECURSIVE BreakdownSamples(_, _, _)
BreakdownSamples(record, labels, osOrder) ==
    IF Len(osOrder) = 0 THEN <<>>
    ELSE LET os == Head(osOrder)
             rest == BreakdownSamples(record, labels, Tail(osOrder))
         IN  IF os \in DOMAIN record.MinutesUsedBreakdown
             THEN <<Sample(LegacyDescs[2], Append(labels, os),
                           FloatOf(record.MinutesUsedBreakdown[os]))>>
                  \o rest
             ELSE rest

\* The samples of one record of bucket 1, 2, 3.
LegacySamples(bucket, record, osOrder) ==
    LET labels == <<record.Type, record.Name>>
    IN  IF bucket = 1
        THEN <<Sample(LegacyDescs[1], labels, record.TotalMinutesUsed),
               Sample(LegacyDescs[3], labels, record.TotalPaidMinutesUsed),
               Sample(LegacyDescs[4], labels, record.IncludedMinutes)>>
             \o BreakdownSamples(record, labels, osOrder)
        ELSE IF bucket = 2
        THEN <<Sample(LegacyDescs[5], labels,
                      record.TotalGigabytesBandwidthUsed),
               Sample(LegacyDescs[6], labels,
                      record.TotalPaidGigabytesBandwidthUsed),
               Sample(LegacyDescs[7], labels,
                      record.IncludedGigabytesBandwidth)>>
        ELSE <<Sample(LegacyDescs[8], labels,
                      FloatOf(record.DaysLeftInBillingCycle)),
               Sample(LegacyDescs[9], labels,
                      record.EstimatedPaidStorageForMonth),
               Sample(LegacyDescs[10], labels,
                      record.EstimatedStorageForMonth)>>

\* The loop of a block of Collect over its records, with the list of
\* collected names.
RECURSIVE LegacyEmit(_, _, _, _, _)
LegacyEmit(bucket, records, collected, out, osOrder) ==
    IF Len(records) = 0 THEN out
    ELSE LET record == Head(records)
         IN  IF alreadyCollected(collected, record.Name)
             THEN LegacyEmit(bucket, Tail(records), collected, out, osOrder)
             ELSE LegacyEmit(bucket, Tail(records),
                             Append(collected, record.Name),
                             out \o LegacySamples(bucket, record, osOrder),
                             osOrder)

\* One block of Collect: fetch, observe the duration, emit.
LegacyBlock(bucket, cfg, resps, osOrder) ==
    LET st == getLegacyBilling(bucket, cfg, resps)
    IN  CallResult(LegacyEmit(bucket, st.items, <<>>, <<>>, osOrder),
                   st.fails, <<"action">>, st.reqs, FALSE)

\* Collect: the action, package and storage blocks in turn.  resps[b] holds
\* the upstream's answers to the calls of block b.
LegacyCollectResult(cfg, resps, osOrder) ==
    LET a == LegacyBlock(1, cfg, resps[1], osOrder)
        p == LegacyBlock(2, cfg, resps[2], osOrder)
        g == LegacyBlock(3, cfg, resps[3], osOrder)
    IN  CallResult(a.samples \o p.samples \o g.samples,
                   a.fails \o p.fails \o g.fails,
                   a.obs \o p.obs \o g.obs,
                   a.reqs \o p.reqs \o g.reqs, FALSE)

----------------------------------------------------------------------------
(* Paged runner fetches (RunnerCollector)                                  *)

\* PerPage of pagedRepoRunners, pagedEnterpriseRunners, pagedOrgRunners.
RepoPerPage == 200
EnterprisePerPage == 50
OrgPerPage == 50

\* A github.Runner; Busy is "true", "false" or "nil" (the field is absent).
Runner(id, name, os, status, busy) ==
    [ID |-> id, Name |-> name, OS |-> os, Status |-> status, Busy |-> busy]

\* What the upstream answers to one page request: kind "ok" with the page's
\* runners and resp.NextPage, or kind "err" / "timeout".
PageResp(runners, nextPage) ==
    [kind |-> "ok", runners |-> runners, next |-> nextPage]
PageErr == [kind |-> "err", runners |-> <<>>, next |-> 0]
PageTimeout == [kind |-> "timeout", runners |-> <<>>, next |-> 0]

\* The state of a paged fetch: opts.Page, the runners gathered, the page
\* requests made, where the loop stands ("loop", or returned "ok" / "err")
\* and whether the context has expired.
PagedStart(expired) ==
    [page |-> 0, runners |-> <<>>, reqs |-> <<>>, pc |-> "loop",
     expired |-> expired]

PagedIterKeepPartial(call, perPage, st, resp) ==
    LET d  == Do(st.expired, resp)
        s1 == [st EXCEPT !.reqs = Append(@, [call |-> call,
                                             page |-> st.page,
                                             perPage |-> perPage]),
                         !.expired = d[2]]
    IN  IF d[1] THEN [s1 EXCEPT !.pc = "err"]
        ELSE LET s2 == [s1 EXCEPT !.runners = @ \o resp.runners]
             IN  IF resp.next = 0 THEN [s2 EXCEPT !.pc = "ok"]
                 ELSE [s2 EXCEPT !.page = resp.next]

PagedIterNextSequential(call, perPage, st, resp) ==
    LET d  == Do(st.expired, resp)
        s1 == [st EXCEPT !.reqs = Append(@, [call |-> call,
                                             page |-> st.page,
                                             perPage |-> perPage]),
                         !.expired = d[2]]
    IN  IF d[1] THEN [s1 EXCEPT !.pc = "err", !.runners = <<>>]
        ELSE LET s2 == [s1 EXCEPT !.runners = @ \o resp.runners]
             IN  IF resp.next = 0 THEN [s2 EXCEPT !.pc = "ok"]
                 ELSE [s2 EXCEPT !.page = IF st.page = 0 THEN 2
                                          ELSE st.page + 1]

\* One iteration of the for loop of a paged fetch: the request with the
\* current opts, then return nil and the error, or append the page and
\* either break (NextPage is 0) or go on with opts.Page = resp.NextPage.
PagedIter(call, perPage, st, resp) ==
    LET d  == Do(st.expired, resp)
        s1 == [st EXCEPT !.reqs = Append(@, [call |-> call,
                                             page |-> st.page,
                                             perPage |-> perPage]),
                         !.expired = d[2]]
    IN  IF d[1] THEN [s1 EXCEPT !.pc = "err", !.runners = <<>>]
        ELSE LET s2 == [s1 EXCEPT !.runners = @ \o resp.runners]
             IN  IF resp.next = 0 THEN [s2 EXCEPT !.pc = "ok"]
                 ELSE [s2 EXCEPT !.page = resp.next]

\* The loop run to its return against the upstream's answers in order.
RECURSIVE PagedRun(_, _, _, _)
PagedRun(call, perPage, st, script) ==
    IF st.pc # "loop" \/ Len(script) = 0 THEN st
    ELSE PagedRun(call, perPage, PagedIter(call, perPage, st, Head(script)),
                  Tail(script))

pagedRepoRunners(expired, owner, name, script) ==
    PagedRun(<<"Actions.ListRunners", owner, name>>, RepoPerPage,
             PagedStart(expired), script)

pagedEnterpriseRunners(expired, name, script) ==
    PagedRun(<<"Enterprise.ListRunners", name>>, EnterprisePerPage,
             PagedStart(expired), script)

pagedOrgRunners(expired, name, script) ==
    PagedRun(<<"Actions.ListOrganizationRunners", name>>, OrgPerPage,
             PagedStart(expired), script)

----------------------------------------------------------------------------
(* Runner collector (RunnerCollector)                                      *)

RunnerDescs == <<"github_runner_repo_online", "github_runner_repo_busy",
                 "github_runner_enterprise_online",
                 "github_runner_enterprise_busy",
                 "github_runner_org_online", "github_runner_org_busy">>

Digits == <<"0","1","2","3","4","5","6","7","8","9">>

\* strconv.FormatInt(n, 10).
RECURSIVE FormatNat(_)
FormatNat(n) ==
    IF n < 10 THEN Digits[n + 1]
    ELSE FormatNat(n \div 10) \o Digits[(n % 10) + 1]

FormatInt(n) == IF n < 0 THEN "-" \o FormatNat(-n) ELSE FormatNat(n)

\* boolToFloat64.
boolToFloat64(b) == IF b = "true" THEN FloatOf(1) ELSE FloatOf(0)

\* A github.Repository as the listing returns it.
Repo(owner, name) ==
    [Owner |-> owner, Name |-> name, FullName |-> owner \o "/" \o name]

\* What the upstream answers to reposByOwnerAndName: the repositories found
\* for the owner and name, or an error.
ListResp(repos) == [kind |-> "ok", repos |-> repos]
ListErr == [kind |-> "err", repos |-> <<>>]
ListTimeout == [kind |-> "timeout", repos |-> <<>>]

\* The result of a runner fetch: the records gathered, the failures
\* counted, the upstream calls made.
RunnerFetch(records, fails, reqs) ==
    [records |-> records, fails |-> fails, reqs |-> reqs]

\* The inner loop of repoRunners over the repositories of one pattern, under
\* the pattern's context.
RECURSIVE RepoLoop(_, _, _, _, _, _)
RepoLoop(st, name, repos, scripts, k, expired) ==
    IF k > Len(repos) THEN st
    ELSE IF ~Glob(name, repos[k].FullName)
    THEN RepoLoop(st, name, repos, scripts, k + 1, expired)
    ELSE LET p == pagedRepoRunners(expired, repos[k].Owner, repos[k].Name,
                                   scripts[k])
             s1 == [st EXCEPT !.reqs = @ \o p.reqs]
         IN  IF p.pc = "err"
             THEN RepoLoop([s1 EXCEPT !.fails = Append(@, "runner")],
                           name, repos, scripts, k + 1, p.expired)
             ELSE RepoLoop([s1 EXCEPT !.records = @ \o p.runners],
                           name, repos, scripts, k + 1, p.expired)

\* One iteration of the outer loop of repoRunners: one configured pattern.
RepoPattern(st, name, listing, scripts) ==
    LET n == Split(name, "/")
    IN  IF Len(n) # 2
        THEN [st EXCEPT !.fails = Append(@, "runner")]
        ELSE LET d  == Do(FALSE, listing)
                 s1 == [st EXCEPT !.reqs = Append(@,
                          [call |-> <<"reposByOwnerAndName", n[1], n[2]>>,
                           page |-> 0, perPage |-> 0])]
             IN  IF d[1]
                 THEN [s1 EXCEPT !.fails = Append(@, "runner")]
                 ELSE RepoLoop(s1, name, listing.repos, scripts, 1, d[2])

\* The outer loop, were a pattern that is not owner/name to end it.
RECURSIVE RepoPatternsStopAtBad(_, _, _, _, _)
RepoPatternsStopAtBad(st, names, listings, scripts, j) ==
    IF j > Len(names) THEN st
    ELSE IF Len(Split(names[j], "/")) # 2
    THEN RepoPattern(st, names[j], listings[j], scripts[j])
    ELSE RepoPatternsStopAtBad(
             RepoPattern(st, names[j], listings[j], scripts[j]),
             names, listings, scripts, j + 1)

RECURSIVE RepoPatterns(_, _, _, _, _)
RepoPatterns(st, names, listings, scripts, j) ==
    IF j > Len(names) THEN st
    ELSE RepoPatterns(RepoPattern(st, names[j], listings[j], scripts[j]),
                      names, listings, scripts, j + 1)

repoRunners(cfg, up) ==
    RepoPatterns(RunnerFetch(<<>>, <<>>, <<>>), cfg.Repos, up.listings,
                 up.repoScripts, 1)

\* One iteration of the loop of enterpriseRunners / orgRunners, each under
\* a context of its own.
ScopeEntity(st, p) ==
    LET s1 == [st EXCEPT !.reqs = @ \o p.reqs]
    IN  IF p.pc = "err" THEN [s1 EXCEPT !.fails = Append(@, "runner")]
        ELSE [s1 EXCEPT !.records = @ \o p.runners]

RECURSIVE EnterpriseLoop(_, _, _, _)
EnterpriseLoop(st, names, scripts, i) ==
    IF i > Len(names) THEN st
    ELSE EnterpriseLoop(
            ScopeEntity(st, pagedEnterpriseRunners(FALSE, names[i],
                                                   scripts[i])),
            names, scripts, i + 1)

enterpriseRunners(cfg, up) ==
    EnterpriseLoop(RunnerFetch(<<>>, <<>>, <<>>), cfg.Enterprises,
                   up.entScripts, 1)

RECURSIVE OrgLoop(_, _, _, _)
OrgLoop(st, names, scripts, i) ==
    IF i > Len(names) THEN st
    ELSE OrgLoop(ScopeEntity(st, pagedOrgRunners(FALSE, names[i],
                                                 scripts[i])),
                 names, scripts, i + 1)

orgRunners(cfg, up) ==
    OrgLoop(RunnerFetch(<<>>, <<>>, <<>>), cfg.Orgs, up.orgScripts, 1)

RunnerLabels(scope, record) ==
    <<scope, FormatInt(record.ID), record.Name, record.OS, record.Status>>

\* The loop of a block of Collect over its records.  Dereferencing an absent
\* Busy panics after the record's online sample is sent:
\* <<samples sent, panicked>>.
RECURSIVE RunnerEmit(_, _, _, _, _)
RunnerEmit(scope, onlineDesc, busyDesc, records, out) ==
    IF Len(records) = 0 THEN <<out, FALSE>>
    ELSE LET record == Head(records)
             labels == RunnerLabels(scope, record)
             online == IF record.Status = "online" THEN FloatOf(1)
                       ELSE FloatOf(0)
             o1     == Append(out, Sample(onlineDesc, labels, online))
         IN  IF record.Busy = "nil" THEN <<o1, TRUE>>
             ELSE RunnerEmit(scope, onlineDesc, busyDesc, Tail(records),
                             Append(o1, Sample(busyDesc, labels,
                                               boolToFloat64(record.Busy))))

\* One block of Collect: fetch, observe the duration, emit.
RunnerBlock(scope, onlineDesc, busyDesc, fetch) ==
    LET e == RunnerEmit(scope, onlineDesc, busyDesc, fetch.records, <<>>)
    IN  CallResult(e[1], fetch.fails, <<"runner">>, fetch.reqs, e[2])

\* b follows a unless a panicked.
Then(a, b) ==
    IF a.panicked THEN a
    ELSE CallResult(a.samples \o b.samples, a.fails \o b.fails,
                    a.obs \o b.obs, a.reqs \o b.reqs, b.panicked)

\* Collect: the repo, enterprise and org blocks in turn.
RunnerCollectResult(cfg, up) ==
    Then(Then(RunnerBlock("TODO: repo", RunnerDescs[1], RunnerDescs[2],
                          repoRunners(cfg, up)),
              RunnerBlock("TODO: enterprise", RunnerDescs[3], RunnerDescs[4],
                          enterpriseRunners(cfg, up))),
         RunnerBlock("TODO: org", RunnerDescs[5], RunnerDescs[6],
                     orgRunners(cfg, up)))

----------------------------------------------------------------------------
(* Bounds and the values the specifications draw                           *)

\* Usage items in one upstream answer to a v5 billing call.
MaxItems == 2
\* Collect calls in one behaviour.
MaxCollects == 2

\* Targets of the billing collectors (c.config.Enterprises, c.config.Orgs).
\* The name "%" makes an endpoint no request can be prepared for.
Target(enterprises, orgs, repos) ==
    [Enterprises |-> enterprises, Orgs |-> orgs, Repos |-> repos]

BillingTargets ==
    { Target(<<"a">>, <<"a">>, <<>>),
      Target(<<>>, <<"a", "a-b">>, <<>>),
      Target(<<"%">>, <<"a">>, <<>>),
      Target(<<>>, <<"a">>, <<>>) }

\* Usage items of the v5 answers: a base item, the same item on another
\* date, the same item of another repository, and an item whose product
\* holds a "-".
V5Items ==
    { UsageItem("d1", "c", "s", 2, "minutes", 1, 2, 0, 2, "a", "r1"),
      UsageItem("d2", "c", "s", 2, "minutes", 1, 2, 0, 2, "a", "r1"),
      UsageItem("d1", "c", "s", 4, "minutes", 1, 4, 2, 2, "a", "r2"),
      UsageItem("d1", "b-c", "s", 6, "minutes", 1, 6, 0, 6, "a", "r1") }

SeqsUpTo(S, n) == UNION {[1..k -> S] : k \in 0..n}

V5Resps == {ErrResp, TimeoutResp} \cup {OkResp(l) : l \in SeqsUpTo(V5Items, MaxItems)}

\* The answers a call to the entity can get: none is read when no request
\* can be prepared.
EntityResps(e, resps) ==
    IF NewRequestFails(Endpoint(e.type, e.name)) THEN {ErrResp} ELSE resps

\* The sequences whose i-th element is drawn from the i-th set.
RECURSIVE Product(_)
Product(sets) ==
    IF Len(sets) = 0 THEN {<<>>}
    ELSE {<<h>> \o t : h \in Head(sets), t \in Product(Tail(sets))}

WorldsOf(ents, resps) ==
    Product([i \in 1..Len(ents) |-> EntityResps(ents[i], resps)])

\* Targets of the legacy collector.
LegacyTargets ==
    { Target(<<"a">>, <<"a">>, <<>>),
      Target(<<>>, <<"a", "b">>, <<>>),
      Target(<<"%">>, <<"b">>, <<>>) }

\* Usage items of the legacy answers: what the i-th entity of the target
\* has used.
LegacyItemLists ==
    << <<UsageItem("d1", "actions", "actions_linux", 3, "minutes",
                   1, 3, 1, 2, "a", "r1"),
         UsageItem("d1", "actions", "actions_macos", 2, "minutes",
                   1, 2, 0, 2, "a", "r1")>>,
       <<UsageItem("d1", "Actions", "actions_Windows", 4, "Minutes",
                   1, 4, 2, 2, "a", "r1"),
         UsageItem("d1", "packages", "packages_transfer", 2, "gigabytes",
                   1, 2, 0, 2, "a", "r1"),
         UsageItem("d1", "git_lfs", "lfs_storage", GiB, "bytes",
                   1, 2, 0, 2, "a", "r1")>> >>

LegacyResps(i) == {ErrResp, TimeoutResp, OkResp(LegacyItemLists[i])}

\* The answers to the calls of one sub-fetch of the legacy collector.
LegacyWorlds(ents) ==
    Product([i \in 1..Len(ents) |-> EntityResps(ents[i], LegacyResps(i))])

\* The orders a range over MinutesUsedBreakdown can take.
OSOrders ==
    { <<"UBUNTU", "WINDOWS", "MACOS">>, <<"MACOS", "WINDOWS", "UBUNTU">> }

\* Targets of the runner collector: repository patterns (with and without
\* wildcards, with one and three segments), enterprises, organizations.
RunnerTargets ==
    { Target(<<>>, <<>>, <<"o/r*", "o/r1">>),
      Target(<<>>, <<>>, <<"bad", "o/r?">>),
      Target(<<>>, <<>>, <<"o/*1", "o/a/b">>),
      Target(<<"e">>, <<"g">>, <<"o/r1">>),
      Target(<<"e", "f">>, <<"g">>, <<>>) }

\* Repositories a listing can return, in listing order.
Repos == << Repo("o", "r1"), Repo("xo", "r1"), Repo("o", "R1"),
            Repo("o", "r1x") >>

\* Repositories in one listing.
MaxRepos == 2

RECURSIVE Pick(_, _, _)
Pick(seq, idx, i) ==
    IF i > Len(seq) THEN <<>>
    ELSE (IF i \in idx THEN <<seq[i]>> ELSE <<>>) \o Pick(seq, idx, i + 1)

\* The listings of at most n repositories, each repository at most once.
Listings(n) ==
    {Pick(Repos, idx, 1) :
        idx \in {x \in SUBSET (1..Len(Repos)) : Cardinality(x) <= n}}

R1 == Runner(1, "n1", "linux", "online", "true")
R2 == Runner(2, "n2", "linux", "offline", "false")
R3 == Runner(3, "n3", "linux", "online", "nil")

\* The runners of one repository, enterprise or organization have ids of
\* their own, counted from a base.
RunnerOf(base, i, status, busy) ==
    Runner(base + i, "n" \o FormatNat(base + i), "linux", status, busy)

RepoBase(repo) == 10 * (CHOOSE k \in 1..Len(Repos) : Repos[k] = repo)
EnterpriseBase(i) == 50 + 10 * i
OrgBase(i) == 70 + 10 * i

\* The page sequences the upstream answers a repository's fetch with, and
\* those of an enterprise's or an organization's fetch.
RepoScripts(base) ==
    { <<PageErr>>, <<PageTimeout>>,
      <<PageResp(<<RunnerOf(base, 1, "online", "true")>>, 0)>>,
      <<PageResp(<<RunnerOf(base, 1, "online", "true")>>, 2),
        PageResp(<<RunnerOf(base, 2, "offline", "false")>>, 0)>> }

ScopeScripts(base) ==
    RepoScripts(base)
    \cup { <<PageResp(<<RunnerOf(base, 3, "online", "nil")>>, 0)>>,
           <<PageResp(<<RunnerOf(base, 2, "offline", "false")>>, 2),
             PageErr>> }


ListResps == {ListErr, ListTimeout}
             \cup {ListResp(l) : l \in Listings(MaxRepos)}

\* The upstream as one runner Collect meets it: per pattern the listing and
\* a page sequence per listed repository, per enterprise and per
\* organization a page sequence.  Answers no call reads (of a pattern that
\* is not owner/name, of a repository the pattern filters out) are fixed.
PatternWorlds(name) ==
    IF Len(Split(name, "/")) # 2
    THEN {[listing |-> ListErr, scripts |-> <<>>]}
    ELSE UNION { {[listing |-> l, scripts |-> sc] :
                    sc \in Product([k \in 1..Len(l.repos) |->
                                 IF Glob(name, l.repos[k].FullName)
                                 THEN RepoScripts(RepoBase(l.repos[k]))
                                 ELSE {<<PageErr>>}])} :
                 l \in ListResps }

RunnerWorld(pw, es, os) ==
    [listings    |-> [j \in DOMAIN pw |-> pw[j].listing],
     repoScripts |-> [j \in DOMAIN pw |-> pw[j].scripts],
     entScripts  |-> es, orgScripts |-> os]

RunnerWorlds(cfg) ==
    { RunnerWorld(pw, es, os) :
        pw \in Product([j \in 1..Len(cfg.Repos) |->
                           PatternWorlds(cfg.Repos[j])]),
        es \in Product([i \in 1..Len(cfg.Enterprises) |->
                           ScopeScripts(EnterpriseBase(i))]),
        os \in Product([i \in 1..Len(cfg.Orgs) |->
                           ScopeScripts(OrgBase(i))]) }

----------------------------------------------------------------------------
(* The collectors as a state machine                                       *)

VARIABLES
    collector,  \* the collector this process runs: "billing" (v5),
                \* "legacy" or "runner"; "paged" and "parse" in the
                \* specifications of the helpers
    config,     \* c.config, the target
    upstream,   \* what the upstream answers to the calls of one Collect
    failures,   \* the failures counter, by label
    ncalls,     \* Collect calls so far
    last,       \* the last operation: "init", "collect", "describe",
                \* "upstream"
    res,        \* what the last operation sent, counted, observed, requested
    descs,      \* the descriptors the last operation sent
    crashed,    \* a panic has ended the process
    pg,         \* the state of the paged fetch under way
    pgResps,    \* the answers the paged fetch has read
    usage,      \* the usage items handed to parseUsageResponse
    bills       \* what parseUsageResponse returned

vars == <<collector, config, upstream, failures, ncalls, last, res, descs,
          crashed, pg, pgResps, usage, bills>>

Labels == {"billing", "action", "runner"}

NoResult == CallResult(<<>>, <<>>, <<>>, <<>>, FALSE)

Count(seq, x) == Cardinality({i \in 1..Len(seq) : seq[i] = x})

\* NewBillingCollector / NewRunnerCollector: failures.WithLabelValues(..)
\* .Add(0) creates the collector's counter at 0.
NewFailures == [l \in Labels |-> 0]

HelpersIdle ==
    /\ pg = PagedStart(FALSE)
    /\ pgResps = <<>>
    /\ usage = <<>>
    /\ bills = <<>>

InitCollector(kind, targets) ==
    /\ collector = kind
    /\ config \in targets
    /\ failures = NewFailures
    /\ ncalls = 0
    /\ last = "init"
    /\ res = NoResult
    /\ descs = <<>>
    /\ crashed = FALSE
    /\ HelpersIdle

InitV5 ==
    /\ InitCollector("billing", BillingTargets)
    /\ upstream \in WorldsOf(Entities(config), V5Resps)

InitLegacy ==
    /\ InitCollector("legacy", LegacyTargets)
    /\ upstream \in {<<a, p, g>> :
                        a \in LegacyWorlds(Entities(config)),
                        p \in LegacyWorlds(Entities(config)),
                        g \in LegacyWorlds(Entities(config))}

InitRunner ==
    /\ InitCollector("runner", RunnerTargets)
    /\ upstream \in RunnerWorlds(config)

Init == InitV5 \/ InitLegacy \/ InitRunner

\* The call's effects, were the samples of the call before held back as
\* already collected.
CollectedOnce(r) ==
    /\ failures' = [l \in Labels |-> failures[l] + Count(r.fails, l)]
    /\ ncalls' = ncalls + 1
    /\ last' = "collect"
    /\ res' = [r EXCEPT !.samples =
                  SelectSeq(r.samples, LAMBDA x :
                      \A k \in 1..Len(res.samples) : res.samples[k] # x)]
    /\ descs' = <<>>
    /\ crashed' = r.panicked
    /\ UNCHANGED <<collector, config, upstream, pg, pgResps, usage, bills>>

\* The registry calls Collect; the call's effects are recorded.
Collected(r) ==
    /\ failures' = [l \in Labels |-> failures[l] + Count(r.fails, l)]
    /\ ncalls' = ncalls + 1
    /\ last' = "collect"
    /\ res' = r
    /\ descs' = <<>>
    /\ crashed' = r.panicked
    /\ UNCHANGED <<collector, config, upstream, pg, pgResps, usage, bills>>

CanCollect(kind) ==
    /\ collector = kind
    /\ ~crashed
    /\ ncalls < MaxCollects

V5Collect ==
    /\ CanCollect("billing")
    /\ Collected(V5CollectResult(config, upstream))

LegacyCollect ==
    /\ CanCollect("legacy")
    /\ \E osOrder \in OSOrders :
         Collected(LegacyCollectResult(config, upstream, osOrder))

RunnerCollect ==
    /\ CanCollect("runner")
    /\ Collected(RunnerCollectResult(config, upstream))

DescribeOnlyEmitted(kind) ==
    LET all == IF kind = "billing" THEN V5Descs
               ELSE IF kind = "legacy" THEN LegacyDescs ELSE RunnerDescs
    IN  SelectSeq(all, LAMBDA d : last = "init"
                     \/ \E i \in 1..Len(res.samples) : res.samples[i].desc = d)

\* Describe of the collector: its descriptors in the order it sends them.
DescribeResult(kind) ==
    IF kind = "billing" THEN V5Descs
    ELSE IF kind = "legacy" THEN LegacyDescs
    ELSE RunnerDescs

Describe ==
    /\ collector \in {"billing", "legacy", "runner"}
    /\ ~crashed
    /\ descs' = DescribeResult(collector)
    /\ last' = "describe"
    /\ res' = NoResult
    /\ UNCHANGED <<collector, config, upstream, failures, ncalls, crashed,
                   pg, pgResps, usage, bills>>

\* Between two scrapes the upstream changes: a call that was answered starts
\* to fail.
BillingChange(w) ==
    {[w EXCEPT ![i] = ErrResp] : i \in {j \in DOMAIN w : w[j].kind = "ok"}}

ScriptsFail(scripts) ==
    {[scripts EXCEPT ![i] = <<PageErr>>] :
        i \in {j \in DOMAIN scripts : scripts[j] # <<PageErr>>}}

UpstreamChanged(w) ==
    /\ upstream' = w
    /\ last' = "upstream"
    /\ res' = NoResult
    /\ descs' = <<>>
    /\ UNCHANGED <<collector, config, failures, ncalls, crashed, pg, pgResps,
                   usage, bills>>

CanChange(kind) ==
    /\ collector = kind
    /\ last = "collect"
    /\ ~crashed
    /\ ncalls < MaxCollects

V5UpstreamChange ==
    /\ CanChange("billing")
    /\ \E w \in BillingChange(upstream) : UpstreamChanged(w)

LegacyUpstreamChange ==
    /\ CanChange("legacy")
    /\ \E b \in 1..3 : \E w \in BillingChange(upstream[b]) :
          UpstreamChanged([upstream EXCEPT ![b] = w])

RunnerUpstreamChange ==
    /\ CanChange("runner")
    /\ \/ \E es \in ScriptsFail(upstream.entScripts) :
             UpstreamChanged([upstream EXCEPT !.entScripts = es])
       \/ \E os \in ScriptsFail(upstream.orgScripts) :
             UpstreamChanged([upstream EXCEPT !.orgScripts = os])
       \/ \E j \in DOMAIN upstream.listings :
             /\ upstream.listings[j].kind = "ok"
             /\ UpstreamChanged([upstream EXCEPT
                                    !.listings[j] = ListErr,
                                    !.repoScripts[j] = <<>>])

NextV5 == V5Collect \/ Describe \/ V5UpstreamChange

NextLegacy == LegacyCollect \/ Describe \/ LegacyUpstreamChange

NextRunner == RunnerCollect \/ Describe \/ RunnerUpstreamChange

SpecV5 == InitV5 /\ [][NextV5]_vars

SpecLegacy == InitLegacy /\ [][NextLegacy]_vars

SpecRunner == InitRunner /\ [][NextRunner]_vars

Next == V5Collect \/ LegacyCollect \/ RunnerCollect \/ Describe
            \/ V5UpstreamChange \/ LegacyUpstreamChange
            \/ RunnerUpstreamChange

Spec == Init /\ [][Next]_vars

----------------------------------------------------------------------------
(* A paged fetch, request by request                                       *)

\* Page requests the upstream answers with a next page before it must end
\* the listing or fail.
MaxPages == 3

PagedCalls ==
    { [call |-> <<"Actions.ListRunners", "o", "r1">>,
       perPage |-> RepoPerPage],
      [call |-> <<"Enterprise.ListRunners", "e">>,
       perPage |-> EnterprisePerPage],
      [call |-> <<"Actions.ListOrganizationRunners", "g">>,
       perPage |-> OrgPerPage] }

PageLists == { <<>>, <<R1>>, <<R2, R3>> }

\* The answers to a page request: the last answer the upstream may give
\* declares no next page or fails.
PageAnswers(mustEnd) ==
    {PageErr, PageTimeout}
    \cup {PageResp(rs, n) :
            rs \in PageLists,
            n \in IF mustEnd THEN {0} ELSE 0..(MaxPages + 1)}

InitPaged ==
    /\ collector = "paged"
    /\ config \in PagedCalls
    /\ upstream = <<>>
    /\ failures = NewFailures
    /\ ncalls = 0
    /\ last = "init"
    /\ res = NoResult
    /\ descs = <<>>
    /\ crashed = FALSE
    /\ pg \in {PagedStart(e) : e \in BOOLEAN}
    /\ pgResps = <<>>
    /\ usage = <<>>
    /\ bills = <<>>

\* One iteration of the loop.  Under an expired context the request fails
\* with the context's error, whatever the upstream would answer.
PagedRequest ==
    /\ collector = "paged"
    /\ pg.pc = "loop"
    /\ \E resp \in PageAnswers(Len(pg.reqs) + 1 >= MaxPages) :
         /\ pg.expired => resp = PageTimeout
         /\ pg' = PagedIter(config.call, config.perPage, pg, resp)
         /\ pgResps' = Append(pgResps, resp)
    /\ last' = "request"
    /\ UNCHANGED <<collector, config, upstream, failures, ncalls, res, descs,
                   crashed, usage, bills>>

NextPaged == PagedRequest

\* The loop is sequential code: an iteration that can run does run.
SpecPaged == InitPaged /\ [][NextPaged]_vars /\ WF_vars(PagedRequest)

----------------------------------------------------------------------------
(* parseUsageResponse on its own                                           *)

\* Usage items in one response handed to parseUsageResponse.
MaxParseItems == 3

\* Quantities 1/2, 1, 3/2, 2 and 5/2 at Scale 2; products, unit types and
\* SKUs in either case; SKUs of every class and of none.
ParseItemSet ==
    { UsageItem("d1", "actions", "actions_linux", 3, "minutes",
                1, 3, 1, 2, "a", "r1"),
      UsageItem("d1", "Actions", "Actions_Linux_4_core", 1, "Minutes",
                1, 1, 0, 1, "a", "r1"),
      UsageItem("d1", "actions", "actions_windows", 5, "minutes",
                1, 5, 2, 3, "a", "r1"),
      UsageItem("d1", "actions", "actions_macos_12", 2, "minutes",
                1, 2, 0, 2, "a", "r1"),
      UsageItem("d1", "actions", "actions_custom", 4, "minutes",
                1, 4, 1, 3, "a", "r1"),
      UsageItem("d1", "actions", "actions_storage", 2, "gigabytes",
                1, 2, 0, 2, "a", "r1"),
      UsageItem("d1", "packages", "packages_linux", 2, "minutes",
                1, 2, 1, 1, "a", "r1"),
      UsageItem("d1", "packages", "packages_transfer", GiB, "bytes",
                1, 2, 0, 2, "a", "r1"),
      UsageItem("d1", "git_lfs", "lfs_storage", 2, "GigabyteHours",
                1, 2, 0, 2, "a", "r1") }

InitParse ==
    /\ collector = "parse"
    /\ config \in {[type |-> "org", name |-> "a"],
                   [type |-> "enterprise", name |-> "a-b"]}
    /\ upstream = <<>>
    /\ failures = NewFailures
    /\ ncalls = 0
    /\ last = "init"
    /\ res = NoResult
    /\ descs = <<>>
    /\ crashed = FALSE
    /\ pg = PagedStart(FALSE)
    /\ pgResps = <<>>
    /\ usage \in SeqsUpTo(ParseItemSet, MaxParseItems)
    /\ bills = <<>>

Parse ==
    /\ collector = "parse"
    /\ last = "init"
    /\ bills' = parseUsageResponse(usage, config.type, config.name)
    /\ last' = "parse"
    /\ UNCHANGED <<collector, config, upstream, failures, ncalls, res, descs,
                   crashed, pg, pgResps, usage>>

NextParse == Parse

SpecParse == InitParse /\ [][NextParse]_vars

----------------------------------------------------------------------------
(* Properties of the paged fetches                                         *)

\* The records of the pages in page order, then in-page order.
RECURSIVE ConcatPages(_)
ConcatPages(resps) ==
    IF Len(resps) = 0 THEN <<>>
    ELSE Head(resps).runners \o ConcatPages(Tail(resps))

\* C3: a paged fetch that returns without an error returns the records of
\* all its pages concatenated in page order, every page request having
\* succeeded; a paged fetch whose page request fails returns no records with
\* the error of that request, whatever the earlier pages held.
C3_PagedAllOrNothing ==
    /\ pg.pc = "ok" =>
          /\ \A i \in 1..Len(pgResps) : pgResps[i].kind = "ok"
          /\ pg.runners = ConcatPages(pgResps)
    /\ pg.pc = "err" =>
          /\ pgResps[Len(pgResps)].kind # "ok"
          /\ \A i \in 1..(Len(pgResps) - 1) : pgResps[i].kind = "ok"
          /\ pg.runners = <<>>
    /\ pg.pc = "loop" => pg.runners = ConcatPages(pgResps)

\* A fetch of three pages that returned the records of all three.
C3_ThreePagesFetched ==
    /\ pg.pc = "ok"
    /\ Len(pgResps) = 3
    /\ \A i \in 1..3 : Len(pgResps[i].runners) > 0
    /\ Len(pg.runners) > 3

\* opts.Page of the first request: the zero value, which the client leaves
\* out of the query, so that the upstream serves its first page.
FirstPage == 0

\* The requests made so far: the first for the first page, each later one
\* for the page the answer before it declared as next, and none after an
\* answer that declared no next page or failed.
C10_RequestsFollowNextPage ==
    /\ Len(pg.reqs) = Len(pgResps)
    /\ \A i \in 1..Len(pg.reqs) :
          /\ pg.reqs[i].call = config.call
          /\ pg.reqs[i].perPage = config.perPage
          /\ pg.reqs[i].page = IF i = 1 THEN FirstPage
                               ELSE pgResps[i - 1].next
          /\ i > 1 => /\ pgResps[i - 1].kind = "ok"
                      /\ pgResps[i - 1].next # 0
    /\ pg.pc # "loop" =>
          /\ Len(pgResps) > 0
          /\ \/ pgResps[Len(pgResps)].kind # "ok"
             \/ pgResps[Len(pgResps)].next = 0

\* C10: a paged fetch requests the first page, then exactly the page the
\* previous answer declared as next, makes no request after the first answer
\* without a next page or the first error, and so returns once the upstream
\* gives such an answer.
C10_PagedTerminates ==
    /\ []C10_RequestsFollowNextPage
    /\ (pg.pc = "loop") ~> (pg.pc # "loop")

\* A fetch that followed a next page other than the one after the current
\* page, and returned.
C10_JumpedPages ==
    /\ pg.pc = "ok"
    /\ Len(pg.reqs) = 3
    /\ pg.reqs[2].page = 3
    /\ pg.reqs[3].page = 2

----------------------------------------------------------------------------
(* Properties of the legacy usage normaliser                               *)

RECURSIVE Sum(_)
Sum(seq) == IF Len(seq) = 0 THEN 0 ELSE Head(seq) + Sum(Tail(seq))

\* The items the actions bucket counts: product "actions" and unit type
\* "minutes", in any case.
ActionMinutes(items) ==
    SelectSeq(items, LAMBDA it : /\ ToLower(it.Product) = "actions"
                                 /\ ToLower(it.UnitType) = "minutes")

\* The operating system a SKU classifies to, "" when it classifies to none.
OSClass(sku) ==
    LET has(w) == \E i \in 1..(Len(sku) - Len(w) + 1) :
                      ToLower(SubSeq(sku, i, i + Len(w) - 1)) = w
    IN  IF has("linux") THEN "UBUNTU"
        ELSE IF has("windows") THEN "WINDOWS"
        ELSE IF has("mac") THEN "MACOS"
        ELSE ""

QuantitiesOf(items) == [i \in 1..Len(items) |-> items[i].Quantity]

\* The totals of the actions bucket are the sums over the counted items.
C9_Totals ==
    LET sel == ActionMinutes(usage)
    IN  /\ bills[1].TotalMinutesUsed = Sum(QuantitiesOf(sel))
        /\ bills[1].TotalPaidMinutesUsed =
              Sum([i \in 1..Len(sel) |-> sel[i].NetAmount])
        /\ bills[1].IncludedMinutes =
              Sum([i \in 1..Len(sel) |-> sel[i].DiscountAmount])

\* C9: parseUsageResponse yields an actions bucket whose totals are the sums
\* of quantity, netAmount and discountAmount over the items of product
\* "actions" and unit type "minutes", and whose breakdown holds, for every
\* operating system some counted item's SKU classifies to, the sum of the
\* quantities of those items; an unclassified SKU creates no entry.
C9_ActionsBucket ==
    last = "parse" =>
        LET sel == ActionMinutes(usage)
            ofOS(os) == SelectSeq(sel, LAMBDA it : OSClass(it.SKU) = os)
        IN  /\ C9_Totals
            /\ DOMAIN bills[1].MinutesUsedBreakdown =
                  {OSClass(sel[i].SKU) : i \in 1..Len(sel)} \ {""}
            /\ \A os \in DOMAIN bills[1].MinutesUsedBreakdown :
                  FloatOf(bills[1].MinutesUsedBreakdown[os]) =
                      Sum(QuantitiesOf(ofOS(os)))

----------------------------------------------------------------------------
(* Properties of the v5 billing collector                                  *)

\* The usage items one v5 Collect has fetched, with their scope.
V5Fetched == getBillingUsage(config, upstream).items

\* The fields the deduplication is specified over.
V5Tuple(item) == <<item.Type, item.Name, item.Product, item.SKU, item.Date>>

LabelTuple(labels) ==
    <<labels[1], labels[2], labels[3], labels[4], labels[6]>>

SamplesWhere(desc, Test(_)) ==
    {k \in 1..Len(res.samples) :
        res.samples[k].desc = desc /\ Test(res.samples[k].labels)}

\* C4: in one v5 Collect, the fetched items that share a (type, name,
\* product, sku, date) produce exactly one sample in each of the five
\* families, so that items differing in the date alone produce a sample set
\* each.
C4_OneSampleSetPerTuple ==
    (collector = "billing" /\ last = "collect") =>
        \A i \in 1..Len(V5Fetched) : \A d \in 1..Len(V5Descs) :
            Cardinality(SamplesWhere(V5Descs[d],
                LAMBDA l : LabelTuple(l) = V5Tuple(V5Fetched[i]))) = 1

\* C5: in one v5 Collect, every fetched item has a sample of its own label
\* set in each of the five families: items of one scope, product, SKU and
\* date that differ in repository_name or organization_name are each
\* reported.
C5_EveryLabelSetReported ==
    (collector = "billing" /\ last = "collect") =>
        \A i \in 1..Len(V5Fetched) : \A d \in 1..Len(V5Descs) :
            SamplesWhere(V5Descs[d],
                LAMBDA l : l = V5Labels(V5Fetched[i])) # {}

----------------------------------------------------------------------------
(* Properties of the runner collector                                      *)

\* C6: in one runner Collect, no two samples of one family carry the same
\* runner key (scope and runner id), whatever repositories the configured
\* patterns resolve to.
C6_OneSamplePerRunnerKey ==
    (collector = "runner" /\ last = "collect") =>
        \A k1, k2 \in 1..Len(res.samples) :
            (/\ k1 # k2
             /\ res.samples[k1].desc = res.samples[k2].desc)
            => <<res.samples[k1].labels[1], res.samples[k1].labels[2]>>
                   # <<res.samples[k2].labels[1], res.samples[k2].labels[2]>>

\* Anchored, case-sensitive matching of the whole of s against the pattern
\* p: "*" stands for any run of characters and, when q holds, "?" for any
\* one character.
RECURSIVE GlobMatch(_, _, _)
GlobMatch(p, s, q) ==
    IF Len(p) = 0 THEN Len(s) = 0
    ELSE LET c    == SubSeq(p, 1, 1)
             rest == SubSeq(p, 2, Len(p))
         IN  IF c = "*"
             THEN \E k \in 0..Len(s) :
                      GlobMatch(rest, SubSeq(s, k + 1, Len(s)), q)
             ELSE /\ Len(s) > 0
                  /\ (q /\ c = "?") \/ SubSeq(s, 1, 1) = c
                  /\ GlobMatch(rest, SubSeq(s, 2, Len(s)), q)

\* The calls that open a fetch, in call order: the listings of the
\* patterns and the first page requests for runners of a repository.
RepoFetches ==
    LET opens == SelectSeq(res.reqs,
                    LAMBDA r : \/ r.call[1] = "reposByOwnerAndName"
                               \/ /\ r.call[1] = "Actions.ListRunners"
                                  /\ r.page = 0)
    IN  [k \in 1..Len(opens) |-> opens[k].call]

\* The calls selection by matching makes for the patterns from the j-th on:
\* per pattern owner/name the listing, then, when the listing is answered,
\* a fetch for each listed repository whose full name matches.
RECURSIVE SelectedFetches(_, _)
SelectedFetches(j, q) ==
    IF j > Len(config.Repos) THEN <<>>
    ELSE LET name    == config.Repos[j]
             n       == Split(name, "/")
             listed  == IF upstream.listings[j].kind = "ok"
                        THEN upstream.listings[j].repos ELSE <<>>
             matched == SelectSeq(listed,
                           LAMBDA r : GlobMatch(name, r.FullName, q))
         IN  (IF Len(n) # 2 THEN <<>>
              ELSE << <<"reposByOwnerAndName", n[1], n[2]>> >>
                   \o [k \in 1..Len(matched) |->
                         <<"Actions.ListRunners", matched[k].Owner,
                           matched[k].Name>>])
             \o SelectedFetches(j + 1, q)

----------------------------------------------------------------------------
(* Properties of every collector                                           *)

FixedDescriptors(kind) ==
    CASE kind = "billing" -> V5Descs
      [] kind = "legacy"  -> LegacyDescs
      [] kind = "runner"  -> RunnerDescs

\* C7: whenever Describe has run (before, between or after Collect calls,
\* failed or not) it has sent the fixed descriptors of its collector, in
\* the same order, has made no upstream call and has counted no failure.
C7_DescribeFixed ==
    last = "describe" =>
        /\ descs = FixedDescriptors(collector)
        /\ res.reqs = <<>>
        /\ res.fails = <<>>
        /\ ~res.panicked

\* Describe has run between two Collect calls, the first of which counted a
\* failure and sent no sample.
C7_DescribedAfterFailure ==
    /\ last = "describe"
    /\ ncalls = 1
    /\ \E l \in Labels : failures[l] > 0
    /\ descs # <<>>

\* The calls the upstream answers, out of the calls of one fetch.
Answered(w) == {i \in 1..Len(w) : w[i].kind = "ok"}

\* The target without the entities outside idx (positions in fetch order).
SubTarget(cfg, idx) ==
    Target(Pick(cfg.Enterprises, idx, 1),
           Pick(cfg.Orgs, {i - Len(cfg.Enterprises) : i \in idx}, 1),
           cfg.Repos)

\* The samples of a v5 Collect over the answered entities alone.
V5SamplesOfAnswered ==
    V5CollectResult(SubTarget(config, Answered(upstream)),
                    Pick(upstream, Answered(upstream), 1)).samples

\* The samples of a legacy Collect whose blocks each fetch the entities
\* answered to them alone.
LegacySamplesOfAnswered(osOrder) ==
    LET block(b) == LegacyBlock(b, SubTarget(config, Answered(upstream[b])),
                                Pick(upstream[b], Answered(upstream[b]), 1),
                                osOrder).samples
    IN  block(1) \o block(2) \o block(3)

AllPagesOk(script) == \A k \in 1..Len(script) : script[k].kind = "ok"

\* The runner target and upstream without what fails: the patterns that are
\* not owner/name or whose listing fails, the listed repositories whose
\* pages fail, the enterprises and organizations whose pages fail.
RunnerAnswered ==
    LET pats  == {j \in 1..Len(config.Repos) :
                    /\ Len(Split(config.Repos[j], "/")) = 2
                    /\ upstream.listings[j].kind = "ok"}
        ok(j) == {k \in 1..Len(upstream.repoScripts[j]) :
                    AllPagesOk(upstream.repoScripts[j][k])}
        ents  == {i \in 1..Len(config.Enterprises) :
                    AllPagesOk(upstream.entScripts[i])}
        orgs  == {i \in 1..Len(config.Orgs) :
                    AllPagesOk(upstream.orgScripts[i])}
    IN  [cfg |-> Target(Pick(config.Enterprises, ents, 1),
                        Pick(config.Orgs, orgs, 1),
                        Pick(config.Repos, pats, 1)),
         up  |-> [listings |->
                     Pick([j \in 1..Len(config.Repos) |->
                             ListResp(Pick(upstream.listings[j].repos,
                                           ok(j), 1))], pats, 1),
                  repoScripts |->
                     Pick([j \in 1..Len(config.Repos) |->
                             Pick(upstream.repoScripts[j], ok(j), 1)],
                          pats, 1),
                  entScripts |-> Pick(upstream.entScripts, ents, 1),
                  orgScripts |-> Pick(upstream.orgScripts, orgs, 1)]]

RunnerSamplesOfAnswered ==
    RunnerCollectResult(RunnerAnswered.cfg, RunnerAnswered.up).samples

\* C1: one Collect of any collector sends the samples it would send were
\* the target made of the entities the upstream answers alone: the samples
\* of every entity whose own calls are answered, and none for an entity
\* whose call meets an error or a timeout.
C1_FailureIsolation ==
    last = "collect" =>
        CASE collector = "billing" -> res.samples = V5SamplesOfAnswered
          [] collector = "legacy"  ->
                \E osOrder \in OSOrders :
                    res.samples = LegacySamplesOfAnswered(osOrder)
          [] collector = "runner"  -> res.samples = RunnerSamplesOfAnswered

\* The label the constructor creates the failures counter with.
FamilyLabel(kind) == IF kind = "runner" THEN "runner" ELSE "billing"

\* The calls of one billing fetch that fail: no request can be prepared, the
\* upstream answers with an error or not in time, or the deadline of the
\* fetch has passed in an earlier call.
BillingCallsFailed(ents, w) ==
    {i \in 1..Len(w) :
        \/ NewRequestFails(Endpoint(ents[i].type, ents[i].name))
        \/ w[i].kind # "ok"
        \/ \E j \in 1..(i - 1) : w[j].kind = "timeout"}

\* The fetches of the repository block that fail: per pattern, the pattern
\* itself when it is not owner/name or its listing fails, else the matching
\* repositories whose pages fail or follow a page that was not answered in
\* time.
RepoFetchesFailed(j) ==
    LET name    == config.Repos[j]
        repos   == upstream.listings[j].repos
        scripts == upstream.repoScripts[j]
        matched == {k \in 1..Len(repos) :
                       GlobMatch(name, repos[k].FullName, FALSE)}
    IN  IF \/ Len(Split(name, "/")) # 2
           \/ upstream.listings[j].kind # "ok"
        THEN 1
        ELSE Cardinality({k \in matched :
                \/ ~AllPagesOk(scripts[k])
                \/ \E k0 \in matched :
                      /\ k0 < k
                      /\ \E p \in 1..Len(scripts[k0]) :
                            scripts[k0][p].kind = "timeout"})

\* The fetches of one Collect that fail.
FetchesFailed ==
    CASE collector = "billing" ->
            Cardinality(BillingCallsFailed(Entities(config), upstream))
      [] collector = "legacy" ->
            Sum([b \in 1..3 |->
                   Cardinality(BillingCallsFailed(Entities(config),
                                                  upstream[b]))])
      [] collector = "runner" ->
            Sum([j \in 1..Len(config.Repos) |-> RepoFetchesFailed(j)])
            + Cardinality({i \in 1..Len(config.Enterprises) :
                              ~AllPagesOk(upstream.entScripts[i])})
            + Cardinality({i \in 1..Len(config.Orgs) :
                              ~AllPagesOk(upstream.orgScripts[i])})

\* C2: one Collect that returns adds to the failures counter, under the
\* label its constructor created, one for each fetch of an entity that
\* fails, and changes the counter under no other label.
C2_FailuresUnderFamilyLabel ==
    (last = "collect" /\ ~res.panicked) =>
        /\ Count(res.fails, FamilyLabel(collector)) = FetchesFailed
        /\ Len(res.fails) = FetchesFailed

----------------------------------------------------------------------------
(* Order and deduplication of the v5 billing collector                     *)

RECURSIVE Flatten(_)
Flatten(seqs) ==
    IF Len(seqs) = 0 THEN <<>> ELSE Head(seqs) \o Flatten(Tail(seqs))

\* The items of the answered calls of one v5 Collect: the enterprises in
\* the configured order, then the organizations, the items of an entity in
\* the order of its response.
V5InFetchOrder ==
    LET ents   == [i \in 1..Len(config.Enterprises) |->
                      <<"enterprise", config.Enterprises[i]>>]
                  \o [i \in 1..Len(config.Orgs) |-> <<"org", config.Orgs[i]>>]
        failed == BillingCallsFailed(Entities(config), upstream)
    IN  Flatten([i \in 1..Len(ents) |->
            IF i \in failed THEN <<>>
            ELSE [k \in 1..Len(upstream[i].items) |->
                    [f \in (DOMAIN upstream[i].items[k]) \cup {"Type", "Name"}
                        |-> IF f = "Type" THEN ents[i][1]
                            ELSE IF f = "Name" THEN ents[i][2]
                            ELSE upstream[i].items[k][f]]]])

\* The positions of the items that are the first of their key.
FirstOfKey(items) ==
    {p \in 1..Len(items) :
        \A q \in 1..(p - 1) : DedupKey(items[q]) # DedupKey(items[p])}

\* C11: one v5 Collect sends, for every deduplication key, the five samples
\* of the first item of that key in fetch order (enterprises in the
\* configured order, then organizations, each response in its order), with
\* that item's labels and values, and nothing of the later items of the key.
C11_FirstItemOfKeyWins ==
    (collector = "billing" /\ last = "collect") =>
        LET items  == V5InFetchOrder
            firsts == FirstOfKey(items)
            rank(p) == Cardinality({q \in firsts : q < p})
            value(it) == <<it.Quantity, it.GrossAmount, it.DiscountAmount,
                           it.NetAmount, it.PricePerUnit>>
        IN  /\ Len(res.samples) = 5 * Cardinality(firsts)
            /\ \A p \in firsts : \A d \in 1..5 :
                  res.samples[5 * rank(p) + d] =
                      [desc   |-> V5Descs[d],
                       labels |-> <<items[p].Type, items[p].Name,
                                    items[p].Product, items[p].SKU,
                                    items[p].UnitType, items[p].Date,
                                    items[p].OrganizationName,
                                    items[p].RepositoryName>>,
                       value  |-> value(items[p])[d]]

\* A v5 Collect has fetched two items of one key that differ in quantity
\* and repository, one from an enterprise and one from an organization or
\* both from one response.
C11_LaterItemOfKeyFetched ==
    /\ collector = "billing"
    /\ last = "collect"
    /\ \E p, q \in 1..Len(V5InFetchOrder) :
          /\ p < q
          /\ DedupKey(V5InFetchOrder[p]) = DedupKey(V5InFetchOrder[q])
          /\ V5InFetchOrder[p].Quantity # V5InFetchOrder[q].Quantity
    /\ Len(res.samples) >= 5

\* C12: one v5 Collect drops a fetched item only when an earlier fetched
\* item has the same type, name, product, SKU and date: every item that
\* differs from all earlier items in one of the five fields is sent, also
\* when the fields hold a "-".
C12_DroppedOnlyOnEqualFields ==
    (collector = "billing" /\ last = "collect") =>
        \A p \in 1..Len(V5InFetchOrder) :
            (\A q \in 1..(p - 1) :
                V5Tuple(V5InFetchOrder[q]) # V5Tuple(V5InFetchOrder[p]))
            => \E k \in 1..Len(res.samples) :
                  /\ res.samples[k].labels = V5Labels(V5InFetchOrder[p])
                  /\ res.samples[k].value = V5InFetchOrder[p].Quantity

----------------------------------------------------------------------------
(* Patterns and absent fields of the runner collector                      *)

\* The patterns of the target that are owner/name.
GoodPatterns ==
    {j \in 1..Len(config.Repos) : Len(Split(config.Repos[j], "/")) = 2}

\* One runner Collect over the target without the patterns that are not
\* owner/name.
RunnerResultOfGoodPatterns ==
    RunnerCollectResult(
        [config EXCEPT !.Repos = Pick(@, GoodPatterns, 1)],
        [upstream EXCEPT !.listings = Pick(@, GoodPatterns, 1),
                         !.repoScripts = Pick(@, GoodPatterns, 1)])

\* C13: a configured pattern that does not split on "/" into exactly two
\* segments adds exactly one to the failures counter under "runner", makes
\* no upstream call, and leaves the other patterns resolved: the Collect
\* requests and sends what it would without the pattern, and counts one
\* failure more for each such pattern.
C13_BadPatternCountedAndSkipped ==
    (collector = "runner" /\ last = "collect") =>
        LET r   == RunnerResultOfGoodPatterns
            bad == Len(config.Repos) - Cardinality(GoodPatterns)
        IN  /\ res.reqs = r.reqs
            /\ res.samples = r.samples
            /\ Len(res.fails) = Len(r.fails) + bad
            /\ Count(res.fails, "runner") = Len(res.fails)

\* A runner Collect has met a pattern that is not owner/name and has
\* requested the listing of a pattern configured after it.
C13_BadPatternThenListing ==
    /\ collector = "runner"
    /\ last = "collect"
    /\ \E j \in 1..Len(config.Repos) :
          /\ j \notin GoodPatterns
          /\ \E j2 \in GoodPatterns :
                /\ j2 > j
                /\ \E k \in 1..Len(res.reqs) :
                      res.reqs[k].call =
                          <<"reposByOwnerAndName">>
                              \o Split(config.Repos[j2], "/")
    /\ failures["runner"] >= 1

\* The runner records one runner Collect fetches.
RunnerRecordsFetched ==
    repoRunners(config, upstream).records
        \o enterpriseRunners(config, upstream).records
        \o orgRunners(config, upstream).records

\* C18: one runner Collect returns and sends exactly two samples, online
\* and busy, for every runner record it has fetched, also for a record
\* without a busy flag, which neither ends the Collect nor holds back the
\* samples of the other records.
C18_TwoSamplesPerRunner ==
    (collector = "runner" /\ last = "collect") =>
        /\ ~res.panicked
        /\ Len(res.samples) = 2 * Len(RunnerRecordsFetched)
        /\ \A n \in 1..Len(RunnerRecordsFetched) :
              LET id == FormatInt(RunnerRecordsFetched[n].ID)
              IN  /\ res.samples[2 * n - 1].labels[2] = id
                  /\ res.samples[2 * n].labels[2] = id
                  /\ res.samples[2 * n - 1].desc # res.samples[2 * n].desc

----------------------------------------------------------------------------
(* Deduplication of the legacy collector                                   *)

\* The first family of the action, package and storage blocks.
LegacyBlockDesc(bucket) == LegacyDescs[<<1, 5, 8>>[bucket]]

\* C14: in one legacy Collect, every entity whose fetch is answered has
\* samples of its own scope type and name in the block of that fetch: an
\* enterprise and an organization of one name are both reported.
C14_SameNameBothScopesSent ==
    (collector = "legacy" /\ last = "collect") =>
        \A b \in 1..3 : \A i \in 1..Len(Entities(config)) :
            i \notin BillingCallsFailed(Entities(config), upstream[b]) =>
                \E k \in 1..Len(res.samples) :
                    /\ res.samples[k].desc = LegacyBlockDesc(b)
                    /\ res.samples[k].labels =
                          <<Entities(config)[i].type, Entities(config)[i].name>>

----------------------------------------------------------------------------
(* Durations and statelessness of the collectors                           *)

\* The labels a duration of the i-th sub-fetch of a collector may go under:
\* the name of the family or the category of the sub-fetch.
DurationLabels(kind, i) ==
    IF kind = "billing" THEN {"billing", "usage"}
    ELSE IF kind = "legacy"
    THEN {"billing", <<"action", "package", "storage">>[i]}
    ELSE {"runner", <<"repo", "enterprise", "org">>[i]}

SubFetchCount(kind) == IF kind = "billing" THEN 1 ELSE 3

\* C15: one Collect that returns observes exactly one duration for each of
\* its sub-fetches (legacy: action, package, storage; v5: usage; runner:
\* repo, enterprise, org), whether the sub-fetch failed or not, each under
\* the label of the sub-fetch it measures.
C15_OneDurationPerSubFetch ==
    (last = "collect" /\ ~res.panicked) =>
        /\ Len(res.obs) = SubFetchCount(collector)
        /\ \A i \in 1..Len(res.obs) :
              res.obs[i] \in DurationLabels(collector, i)

=============================================================================
